---- MODULE Spec2Model ----
(***************************************************************************)
(* The diamond-square terrain generator of randterrainpy/terraingen.py     *)
(* (DiamondSquareGenerator and its noise presets), as a state machine.     *)
(*                                                                         *)
(* The module is Python 2 code: "/" on two ints is floor division, and     *)
(* 2 ** n with n < 0 is a float.  Elevations are Python floats; they are   *)
(* modelled as exact reduced fractions <<n, d>> (d > 0).  random.random()  *)
(* is the module-global generator of the random module: one state shared   *)
(* by every call, read and advanced by each draw.                          *)
(*                                                                         *)
(* One step of the machine is one of: the entry of __call__ up to the      *)
(* first _divide, one entry of _divide, one _update_square, one            *)
(* _update_diamond.                                                        *)
(***************************************************************************)
EXTENDS Integers, Sequences, FiniteSets, TLC

\* Largest side_exp a call is made with (side length 2^MaxExp + 1).
MaxExp == 2
\* Invalid exponents -MaxNegExp .. -1 are tried as well.
MaxNegExp == 1
\* Number of states of the random generator; a draw is state / RngMod.
RngMod == 8
\* Largest side_exp of the two calls that run interleaved.
MaxParExp == 1

VARIABLES
    amp_from_freq,  \* self.amp_from_freq: the amplitude function of the generator
    rng,            \* state of the module-global generator behind random.random()
    calls           \* call id -> the frame of one invocation of __call__

vars == <<amp_from_freq, rng, calls>>

----------------------------------------------------------------------------
(* Float arithmetic, exact: reduced fractions <<numerator, denominator>>.  *)
(* The comparisons of the clamp are made on the value that is stored, so   *)
(* rounding cannot take a stored value out of [0, 1]; sums and means of    *)
(* 0.5 and a zero offset are exact in binary floating point as well.       *)

RECURSIVE GCD(_, _)
GCD(a, b) == IF b = 0 THEN a ELSE GCD(b, a % b)

Abs(n) == IF n < 0 THEN -n ELSE n

Rat(n, d) == LET g == GCD(Abs(n), d) IN <<n \div g, d \div g>>

LCM(a, b) == (a \div GCD(a, b)) * b

RAdd(a, b) ==
    LET l == LCM(a[2], b[2])
    IN  Rat(a[1] * (l \div a[2]) + b[1] * (l \div b[2]), l)

RSub(a, b) == RAdd(a, <<-b[1], b[2]>>)

RMul(a, b) == Rat(a[1] * b[1], a[2] * b[2])

RDivInt(a, k) == Rat(a[1], a[2] * k)

Zero == <<0, 1>>
One == <<1, 1>>
\* init_val passed by __call__ to _initialize_corners: 0.5
SeedValue == <<1, 2>>

RECURSIVE Pow2(_)
Pow2(n) == IF n = 0 THEN 1 ELSE 2 * Pow2(n - 1)

----------------------------------------------------------------------------
(* Terrain (module terrain, imported at line 3): a grid of elevations      *)
(* addressed by (x, y), created with every elevation undefined, with       *)
(* bounds-checked reads and writes.                                        *)
(*                                                                         *)
(* A call with side_exp < 0 computes the non-integer side length           *)
(* 2 ** side_exp + 1.  Extents and coordinates of a Terrain are therefore  *)
(* kept as numerators over t.den; den = 1 whenever side_exp >= 0, and      *)
(* then they are the plain integers of the code.                           *)

Undef == <<0, 0>>

InvalidDimension(width, length) == width <= 0 \/ length <= 0

Terrain(width, length, den) ==
    [den    |-> den,
     width  |-> width,
     length |-> length,
     cells  |-> [c \in (0 .. width - 1) \X (0 .. length - 1) |-> Undef]]

NoTerrain == Terrain(0, 0, 1)

InBounds(t, c) == c[1] \in 0 .. t.width - 1 /\ c[2] \in 0 .. t.length - 1

Assigned(t, c) == InBounds(t, c) /\ t.cells[c] # Undef

Get(t, c) == IF t.cells[c] = Undef THEN Zero ELSE t.cells[c]

Set(t, c, v) == [t EXCEPT !.cells[c] = v]

----------------------------------------------------------------------------
(* DiamondSquareGenerator: the pure parts.                                 *)

\* range(a, b, s) of Python, s > 0, as a sequence
Range(a, b, s) ==
    LET n == IF b > a THEN (b - a + s - 1) \div s ELSE 0
    IN  [k \in 1 .. n |-> a + (k - 1) * s]

\* 2 ** side_exp + 1 as numerator and denominator: an int when side_exp >= 0,
\* the float 1 + 1 / 2^(-side_exp) otherwise
SideLenDen(side_exp) == IF side_exp >= 0 THEN 1 ELSE Pow2(-side_exp)

SideLen(side_exp) ==
    IF side_exp >= 0 THEN Pow2(side_exp) + 1 ELSE 1 + Pow2(-side_exp)

initialize_corners(terrain, init_val) ==
    LET t1 == Set(terrain, <<0, 0>>, init_val)
        t2 == Set(t1, <<0, terrain.length - terrain.den>>, init_val)
        t3 == Set(t2, <<terrain.width - terrain.den, 0>>, init_val)
    IN  Set(t3, <<terrain.width - terrain.den, terrain.length - terrain.den>>, init_val)

\* square_len / 2 on ints
HalfOf(square_len) == square_len \div 2

\* the recursion stopped at half <= 1
StopDividingEarly(terrain, square_len) ==
    IF terrain.den = 1
    THEN HalfOf(square_len) <= 1
    ELSE square_len <= 2 * terrain.den

\* the test "half < 1" of _divide; with den > 1 square_len is a float and
\* half = square_len / 2 is the exact quotient
StopDividing(terrain, square_len) ==
    IF terrain.den = 1
    THEN HalfOf(square_len) < 1
    ELSE square_len < 2 * terrain.den

RECURSIVE Rows(_, _, _, _, _)
\* the (x, y) visited by "for y in ys: for x in range(starts[y], stop, step)",
\* in order, from row j on
Rows(ys, starts, stop, step, j) ==
    IF j > Len(ys)
    THEN <<>>
    ELSE LET row == Range(starts[j], stop, step)
         IN  [k \in 1 .. Len(row) |-> <<row[k], ys[j]>>]
             \o Rows(ys, starts, stop, step, j + 1)

SquareCentres(terrain, half, square_len) ==
    LET ys == Range(half, terrain.length, square_len)
    IN  Rows(ys, [j \in 1 .. Len(ys) |-> half], terrain.width, square_len, 1)

\* the row's first column without the checkerboard shift
DiamondRowStartUnshifted(y, half, square_len) == y % square_len

DiamondRowStart(y, half, square_len) == (y + half) % square_len

\* the diamond rows stepped by square_len instead of half
DiamondCentresCoarse(terrain, half, square_len) ==
    LET ys == Range(0, terrain.length, square_len)
    IN  Rows(ys, [j \in 1 .. Len(ys) |-> DiamondRowStart(ys[j], half, square_len)],
             terrain.width, square_len, 1)

DiamondCentres(terrain, half, square_len) ==
    LET ys == Range(0, terrain.length, half)
    IN  Rows(ys, [j \in 1 .. Len(ys) |-> DiamondRowStart(ys[j], half, square_len)],
             terrain.width, square_len, 1)

\* the corners taken at distance square_len instead of half
SquareNeighboursFar(x, y, half_len) ==
    << <<x - 2 * half_len, y - 2 * half_len>>,
       <<x - 2 * half_len, y + 2 * half_len>>,
       <<x + 2 * half_len, y - 2 * half_len>>,
       <<x + 2 * half_len, y + 2 * half_len>> >>

SquareNeighbours(x, y, half_len) ==
    << <<x - half_len, y - half_len>>,
       <<x - half_len, y + half_len>>,
       <<x + half_len, y - half_len>>,
       <<x + half_len, y + half_len>> >>

\* the four neighbours, wrapped around the grid on an edge
DiamondNeighboursWrapped(terrain, x, y, half_len) ==
    << <<(x - half_len) % terrain.width, y>>,
       <<x, (y - half_len) % terrain.length>>,
       <<(x + half_len) % terrain.width, y>>,
       <<x, (y + half_len) % terrain.length>> >>

DiamondNeighbours(terrain, x, y, half_len) ==
    (IF x # 0 THEN << <<x - half_len, y>> >> ELSE <<>>)
    \o (IF y # 0 THEN << <<x, y - half_len>> >> ELSE <<>>)
    \o (IF x # terrain.width - 1 THEN << <<x + half_len, y>> >> ELSE <<>>)
    \o (IF y # terrain.length - 1 THEN << <<x, y + half_len>> >> ELSE <<>>)

RECURSIVE SumHeights(_, _, _)
SumHeights(terrain, nbrs, k) ==
    IF k = 0 THEN Zero
    ELSE RAdd(SumHeights(terrain, nbrs, k - 1), Get(terrain, nbrs[k]))

\* the divisor of the square's mean: the literal 4.0
SquareDivisor(nbrs) == 4

\* the diamond's mean divided by 4.0 like the square's
DiamondDivisorFour(nbrs) == 4

\* the divisor of the diamond's mean: float(len(neighbours))
DiamondDivisor(nbrs) == Len(nbrs)

\* sum([...]) / divisor
MeanHeight(terrain, nbrs, divisor) ==
    RDivInt(SumHeights(terrain, nbrs, Len(nbrs)), divisor)

\* the ratio inverted
FrequencyInverted(terrain, len) == len \div terrain.length

\* terrain.length / square_len on ints
Frequency(terrain, len) == terrain.length \div len

AmpNames == {"zero", "red", "pink", "white", "blue", "violet"}

\* the presets (lambda f: f ** -2, f ** -1, 1, f, f ** 2) and lambda f: 0
AmpFromFreq(amp, f) ==
    CASE amp = "zero"   -> Zero
      [] amp = "red"    -> Rat(1, f * f)
      [] amp = "pink"   -> Rat(1, f)
      [] amp = "white"  -> One
      [] amp = "blue"   -> <<f, 1>>
      [] amp = "violet" -> <<f * f, 1>>

\* f ** -2 and f ** -1 raise ZeroDivisionError at f = 0
AmpRaises(amp, f) == amp \in {"red", "pink"} /\ f = 0

Random(g) == Rat(g, RngMod)

NextRng(g) == (5 * g + 3) % RngMod

\* (random.random() - 0.5) * self.amp_from_freq(frequency)
Offset(amp, g, frequency) ==
    RMul(RSub(Random(g), <<1, 2>>), AmpFromFreq(amp, frequency))

\* Clamp without the upper limit
ClampBelowOnly(v) == IF v[1] < 0 THEN Zero ELSE v

\* the value stored for mean_height + offset = v
Clamp(v) ==
    IF ~(0 <= v[1] /\ v[1] <= v[2])
    THEN IF v[1] > v[2] THEN One ELSE Zero
    ELSE v

\* what both updates do once the neighbours are chosen: read them, compute
\* the frequency, draw, and store the clamped mean_height + offset
Update(terrain, x, y, half_len, nbrs, divisor, len, amp, g) ==
    LET frequency == Frequency(terrain, len)
        exc == IF \E k \in 1 .. Len(nbrs) : ~InBounds(terrain, nbrs[k])
               THEN "OutOfBounds"
               ELSE IF AmpRaises(amp, frequency)
               THEN "ZeroDivisionError"
               ELSE IF ~InBounds(terrain, <<x, y>>)
               THEN "OutOfBounds"
               ELSE "none"
    IN  [exc       |-> exc,
         half_len  |-> half_len,
         reads     |-> nbrs,
         divisor   |-> divisor,
         frequency |-> frequency,
         rng       |-> IF \E k \in 1 .. Len(nbrs) : ~InBounds(terrain, nbrs[k])
                       THEN g ELSE NextRng(g),
         terrain   |-> IF exc = "none"
                       THEN Set(terrain, <<x, y>>,
                                Clamp(RAdd(MeanHeight(terrain, nbrs, divisor),
                                           Offset(amp, g, frequency))))
                       ELSE terrain]

update_square(terrain, x, y, square_len, amp, g) ==
    LET half_len == HalfOf(square_len)
        nbrs == SquareNeighbours(x, y, half_len)
    IN  Update(terrain, x, y, half_len, nbrs, SquareDivisor(nbrs), square_len,
               amp, g)

update_diamond(terrain, x, y, diamond_len, amp, g) ==
    LET half_len == HalfOf(diamond_len)
        nbrs == DiamondNeighbours(terrain, x, y, half_len)
    IN  Update(terrain, x, y, half_len, nbrs, DiamondDivisor(nbrs), diamond_len,
               amp, g)

----------------------------------------------------------------------------
(* The frame of one invocation of __call__.  pc is the position in the     *)
(* code; i is the position in the loop nest of the current phase.  The     *)
(* fields after exc record what the invocation did and are never read by   *)
(* the operations.                                                         *)

NoUpdate ==
    [phase |-> "none", x |-> 0, y |-> 0, half_len |-> 0, reads |-> <<>>,
     divisor |-> 0, frequency |-> 0]

NewCall(side_exp) ==
    [pc           |-> "call",
     side_exp     |-> side_exp,
     terrain      |-> NoTerrain,
     square_len   |-> 0,
     half         |-> 0,
     i            |-> 0,
     exc          |-> "none",
     allocated    |-> FALSE,
     rng_at_entry |-> 0,
     divide_calls |-> 0,
     updates      |-> 0,
     last         |-> NoUpdate,
     freqs        |-> <<>>]

\* __call__ up to the call of _divide
call(c, g) ==
    LET side_len == SideLen(c.side_exp)
        den == SideLenDen(c.side_exp)
    IN  IF InvalidDimension(side_len, side_len)
        THEN [c EXCEPT !.pc = "raised", !.exc = "InvalidDimension",
                       !.rng_at_entry = g]
        ELSE [c EXCEPT !.pc = "divide",
                       !.terrain = initialize_corners(
                                       Terrain(side_len, side_len, den), SeedValue),
                       !.allocated = TRUE,
                       !.square_len = side_len - den,
                       !.rng_at_entry = g]

\* the entry of _divide: return, or start the loop over the squares
divide(c) ==
    IF StopDividing(c.terrain, c.square_len)
    THEN [c EXCEPT !.pc = "done", !.divide_calls = @ + 1]
    ELSE [c EXCEPT !.pc = "square",
                   !.half = HalfOf(c.square_len),
                   !.i = 1,
                   !.divide_calls = @ + 1,
                   !.freqs = Append(@, {})]

\* one iteration of a loop of _divide, given the update's result u
Iterate(c, phase, centres, u) ==
    LET seen == [c EXCEPT !.terrain = u.terrain,
                          !.updates = @ + 1,
                          !.last = [phase |-> phase,
                                    x |-> centres[c.i][1],
                                    y |-> centres[c.i][2],
                                    half_len |-> u.half_len,
                                    reads |-> u.reads,
                                    divisor |-> u.divisor,
                                    frequency |-> u.frequency],
                          !.freqs[Len(c.freqs)] = @ \cup {<<phase, u.frequency>>}]
    IN  IF u.exc # "none"
        THEN [seen EXCEPT !.pc = "raised", !.exc = u.exc]
        ELSE IF c.i < Len(centres)
        THEN [seen EXCEPT !.i = @ + 1]
        ELSE IF phase = "square"
        THEN [seen EXCEPT !.pc = "diamond", !.i = 1]
        ELSE [seen EXCEPT !.pc = "divide", !.square_len = c.half]

square(c, amp, g) ==
    LET centres == SquareCentres(c.terrain, c.half, c.square_len)
        u == update_square(c.terrain, centres[c.i][1], centres[c.i][2],
                           c.square_len, amp, g)
    IN  [call |-> Iterate(c, "square", centres, u), rng |-> u.rng]

diamond(c, amp, g) ==
    LET centres == DiamondCentres(c.terrain, c.half, c.square_len)
        u == update_diamond(c.terrain, centres[c.i][1], centres[c.i][2],
                            c.square_len, amp, g)
    IN  [call |-> Iterate(c, "diamond", centres, u), rng |-> u.rng]

----------------------------------------------------------------------------
(* The state machine.                                                      *)

Init ==
    /\ amp_from_freq \in AmpNames
    /\ rng \in 0 .. RngMod - 1
    /\ \E e \in -MaxNegExp .. MaxExp : calls = [p \in {1} |-> NewCall(e)]

\* two threads call the same generator
InitPar ==
    /\ amp_from_freq \in AmpNames
    /\ rng \in 0 .. RngMod - 1
    /\ calls \in [{1, 2} -> {NewCall(e) : e \in 0 .. MaxParExp}]

Call(p) ==
    /\ calls[p].pc = "call"
    /\ calls' = [calls EXCEPT ![p] = call(@, rng)]
    /\ UNCHANGED <<amp_from_freq, rng>>

Divide(p) ==
    /\ calls[p].pc = "divide"
    /\ calls' = [calls EXCEPT ![p] = divide(@)]
    /\ UNCHANGED <<amp_from_freq, rng>>

UpdateSquare(p) ==
    /\ calls[p].pc = "square"
    /\ calls' = [calls EXCEPT ![p] = square(@, amp_from_freq, rng).call]
    /\ rng' = square(calls[p], amp_from_freq, rng).rng
    /\ UNCHANGED amp_from_freq

UpdateDiamond(p) ==
    /\ calls[p].pc = "diamond"
    /\ calls' = [calls EXCEPT ![p] = diamond(@, amp_from_freq, rng).call]
    /\ rng' = diamond(calls[p], amp_from_freq, rng).rng
    /\ UNCHANGED amp_from_freq

Next ==
    \/ \E p \in DOMAIN calls : Call(p)
    \/ \E p \in DOMAIN calls : Divide(p)
    \/ \E p \in DOMAIN calls : UpdateSquare(p)
    \/ \E p \in DOMAIN calls : UpdateDiamond(p)

Spec == Init /\ [][Next]_vars

\* some invocation has not returned or raised: a step of Next is possible
\* (and every step changes calls)
Running ==
    \E p \in DOMAIN calls : calls[p].pc \in {"call", "divide", "square", "diamond"}

\* a call, once made, runs to its end: weak fairness of Next, with
\* ENABLED <<Next>>_vars written out as Running
FairSpec == Init /\ [][Next]_vars /\ ([]<>(~Running) \/ []<><<Next>>_vars)

SpecPar == InitPar /\ [][Next]_vars

\* one step of an invocation on its own
Step(c, amp, g) ==
    CASE c.pc = "call"    -> [call |-> call(c, g), rng |-> g]
      [] c.pc = "divide"  -> [call |-> divide(c), rng |-> g]
      [] c.pc = "square"  -> square(c, amp, g)
      [] c.pc = "diamond" -> diamond(c, amp, g)

RECURSIVE RunAlone(_, _, _)
\* the Terrain __call__ returns when nothing else draws from the generator
RunAlone(c, amp, g) ==
    IF c.pc \in {"done", "raised"}
    THEN c.terrain
    ELSE LET s == Step(c, amp, g) IN RunAlone(s.call, amp, s.rng)

----------------------------------------------------------------------------
(* Properties.                                                             *)

Corners(t) ==
    {<<0, 0>>, <<0, t.length - 1>>, <<t.width - 1, 0>>, <<t.width - 1, t.length - 1>>}

AllAssigned(t) == \A xy \in DOMAIN t.cells : t.cells[xy] # Undef

OnEdge(t, x, y) == x = 0 \/ y = 0 \/ x = t.width - 1 \/ y = t.length - 1

\* C1: for side_exp >= 0 the Terrain has side 2^side_exp + 1, and every cell
\* that has been assigned, in every intermediate state and in the returned
\* Terrain, holds a value in [0, 1].
C1_CellsInUnitRange ==
    \A p \in DOMAIN calls :
        LET c == calls[p]
            t == c.terrain
        IN  (c.side_exp >= 0 /\ c.allocated) =>
                /\ t.width = Pow2(c.side_exp) + 1
                /\ t.length = Pow2(c.side_exp) + 1
                /\ \A xy \in DOMAIN t.cells :
                       t.cells[xy] # Undef =>
                           /\ t.cells[xy][2] > 0
                           /\ 0 <= t.cells[xy][1]
                           /\ t.cells[xy][1] <= t.cells[xy][2]

\* a 5x5 Terrain is returned in which one cell was clamped to 1 and one to 0
C1_Witness ==
    /\ calls[1].pc = "done"
    /\ calls[1].side_exp = 2
    /\ \E xy \in DOMAIN calls[1].terrain.cells : calls[1].terrain.cells[xy] = One
    /\ \E xy \in DOMAIN calls[1].terrain.cells : calls[1].terrain.cells[xy] = Zero

\* C2: for side_exp >= 0 the four corners hold the seed value 0.5 from
\* _initialize_corners on, and no square or diamond update is made at a corner.
C2_CornersKeepSeed ==
    \A p \in DOMAIN calls :
        LET c == calls[p]
            t == c.terrain
        IN  (c.side_exp >= 0 /\ c.allocated) =>
                /\ \A xy \in Corners(t) : t.cells[xy] = SeedValue
                /\ c.last.phase # "none" => <<c.last.x, c.last.y>> \notin Corners(t)

\* a 5x5 Terrain is returned whose cells were moved by noise
C2_Witness ==
    /\ calls[1].pc = "done"
    /\ calls[1].side_exp = 2
    /\ amp_from_freq # "zero"
    /\ \E xy \in DOMAIN calls[1].terrain.cells :
           calls[1].terrain.cells[xy] \notin {SeedValue, Undef}

\* C3: with the amplitude function that is 0 everywhere, every assigned cell
\* is exactly 0.5 whatever is drawn, and so is every cell of the returned
\* Terrain.
C3_ZeroAmplitudeFlat ==
    \A p \in DOMAIN calls :
        LET c == calls[p]
            t == c.terrain
        IN  (amp_from_freq = "zero" /\ c.side_exp >= 0) =>
                /\ \A xy \in DOMAIN t.cells : t.cells[xy] \in {Undef, SeedValue}
                /\ c.pc = "done" => \A xy \in DOMAIN t.cells : t.cells[xy] = SeedValue

\* a 5x5 Terrain is returned by the zero-amplitude generator after 21 draws
C3_Witness ==
    /\ calls[1].pc = "done"
    /\ calls[1].side_exp = 2
    /\ amp_from_freq = "zero"
    /\ calls[1].updates = 21
    /\ rng # calls[1].rng_at_entry

\* C4: for side_exp >= 0, when __call__ returns every in-bounds cell has been
\* assigned during the invocation.
C4_AllCellsAssigned ==
    \A p \in DOMAIN calls :
        LET c == calls[p]
        IN  (c.pc = "done" /\ c.side_exp >= 0) =>
                /\ DOMAIN c.terrain.cells =
                       (0 .. Pow2(c.side_exp)) \X (0 .. Pow2(c.side_exp))
                /\ AllAssigned(c.terrain)

\* a 5x5 Terrain is returned after its 21 non-corner cells were updated
C4_Witness ==
    /\ calls[1].pc = "done"
    /\ calls[1].side_exp = 2
    /\ calls[1].updates = 21
    /\ Cardinality(DOMAIN calls[1].terrain.cells) = 25

\* C5: a call with side_exp < 0 raises InvalidDimension at entry: no Terrain
\* is allocated, no cell is written, nothing is drawn.
C5_InvalidExponentRejected ==
    \A p \in DOMAIN calls :
        LET c == calls[p]
        IN  (c.side_exp < 0 /\ c.pc # "call") =>
                /\ c.exc = "InvalidDimension"
                /\ ~c.allocated
                /\ c.terrain = NoTerrain
                /\ rng = c.rng_at_entry

\* the levels of _divide for side_exp >= 0: it is entered with
\* 2^side_exp, then with each successive half; the loops run only with
\* half >= 1; it returns at its entry number side_exp + 1, where
\* square_len = 1; with side_exp = 0 nothing is updated.
DivideLevels ==
    \A p \in DOMAIN calls :
        LET c == calls[p]
        IN  c.side_exp >= 0 =>
                /\ c.divide_calls <= c.side_exp + 1
                /\ c.pc = "divide" =>
                       /\ c.divide_calls <= c.side_exp
                       /\ c.square_len = Pow2(c.side_exp - c.divide_calls)
                /\ c.pc \in {"square", "diamond"} =>
                       /\ c.half >= 1
                       /\ c.square_len = 2 * c.half
                       /\ c.square_len = Pow2(c.side_exp - c.divide_calls + 1)
                /\ c.pc = "done" =>
                       /\ c.divide_calls = c.side_exp + 1
                       /\ c.square_len = 1
                /\ c.side_exp = 0 => c.updates = 0
                /\ c.exc = "none"

\* C6: for side_exp >= 0 the generation terminates, after side_exp + 1
\* entries of _divide (see DivideLevels).
C6_TerminatesAfterLevels ==
    /\ []DivideLevels
    /\ \A p \in {1} :
           (calls[p].side_exp >= 0 /\ calls[p].pc = "call") ~> (calls[p].pc = "done")

\* a 5x5 Terrain is returned after three entries of _divide
C6_Witness ==
    /\ calls[1].pc = "done"
    /\ calls[1].side_exp = 2
    /\ calls[1].divide_calls = 3
    /\ calls[1].updates > 0

\* C7: the Terrain an invocation returns when it runs interleaved with
\* another one is the Terrain it returns alone, started with the generator in
\* the state it had at the invocation's entry.
C7_InterleavedAsAlone ==
    \A p \in DOMAIN calls :
        calls[p].pc = "done" =>
            calls[p].terrain =
                RunAlone(NewCall(calls[p].side_exp), amp_from_freq,
                         calls[p].rng_at_entry)

\* C8: a diamond centre on the boundary is averaged over exactly 3
\* neighbours and an interior one over exactly 4; the divisor is the number of
\* neighbours read; each neighbour is in bounds, at distance half in a
\* straight line, and no neighbour is read twice (no wrapping).
C8_DiamondNeighbourCount ==
    \A p \in DOMAIN calls :
        LET c == calls[p]
            u == c.last
            n == Len(u.reads)
        IN  u.phase = "diamond" =>
                /\ OnEdge(c.terrain, u.x, u.y) => n = 3
                /\ ~OnEdge(c.terrain, u.x, u.y) => n = 4
                /\ n >= 3
                /\ u.divisor = n
                /\ u.half_len >= 1
                /\ Cardinality({u.reads[k] : k \in 1 .. n}) = n
                /\ \A k \in 1 .. n :
                       /\ InBounds(c.terrain, u.reads[k])
                       /\ \/ /\ u.reads[k][2] = u.y
                             /\ Abs(u.reads[k][1] - u.x) = u.half_len
                          \/ /\ u.reads[k][1] = u.x
                             /\ Abs(u.reads[k][2] - u.y) = u.half_len

\* an interior diamond centre has just been averaged over 4 neighbours
C8_Witness ==
    /\ calls[1].last.phase = "diamond"
    /\ ~OnEdge(calls[1].terrain, calls[1].last.x, calls[1].last.y)
    /\ calls[1].last.divisor = 4

\* C9: for side_exp >= 1 every frequency handed to the amplitude function is
\* >= 1, one level uses one frequency in its square and diamond phases, and
\* each level's frequency is twice the previous level's.
C9_FrequencyDoubles ==
    \A p \in DOMAIN calls :
        LET c == calls[p]
        IN  c.side_exp >= 1 =>
                \A k \in 1 .. Len(c.freqs) :
                    /\ \A pf \in c.freqs[k] : pf[2] >= 1
                    /\ \A pf, qf \in c.freqs[k] : pf[2] = qf[2]
                    /\ k > 1 =>
                           \A pf \in c.freqs[k] :
                               \A qf \in c.freqs[k - 1] : pf[2] = 2 * qf[2]

\* the second level of a 5x5 generation has used its frequency in both phases
C9_Witness ==
    /\ calls[1].side_exp = 2
    /\ Len(calls[1].freqs) = 2
    /\ calls[1].freqs[1] = {<<"square", 1>>, <<"diamond", 1>>}
    /\ calls[1].freqs[2] = {<<"square", 2>>, <<"diamond", 2>>}

\* C10: every cell an update reads as a neighbour is in bounds and was
\* assigned before the update, in the same invocation.
C10_ReadsAssigned ==
    [][\A p \in DOMAIN calls :
           calls'[p].updates # calls[p].updates =>
               \A k \in 1 .. Len(calls'[p].last.reads) :
                   Assigned(calls[p].terrain, calls'[p].last.reads[k])]_vars

\* an interior diamond of the second level has read its four neighbours, two
\* of them written by the square phase of the same level
C10_Witness ==
    /\ calls[1].last.phase = "diamond"
    /\ calls[1].divide_calls = 2
    /\ Len(calls[1].last.reads) = 4
    /\ calls[1].exc = "none"

====
